---- MODULE Spec2Model ----
(***************************************************************************)
(* Webhook ingestion pipeline of thor-email-app: signature verification,   *)
(* timestamp check, payload decoding and dispatch, as implemented by       *)
(* WebhookReceiver.handle and by the standalone processWebhook.            *)
(*                                                                         *)
(* Strings that the code inspects character by character (the signature    *)
(* header, the signed payload) are sequences of one-character strings.     *)
(***************************************************************************)
EXTENDS Integers, Sequences, FiniteSets, TLC

(***************************************************************************)
(* Bounds of the model.                                                    *)
(***************************************************************************)
\* number of characters of a modelled hex digest (64 in a real SHA-256)
HexLen == 2
\* the instant (unix seconds) at which the sender signs its webhooks
SignTime == 1000

(***************************************************************************)
(* JavaScript string primitives used by the verification code.             *)
(***************************************************************************)
StartsWith(s, p) ==
    /\ Len(s) >= Len(p)
    /\ SubSeq(s, 1, Len(p)) = p

\* first index at which p occurs in s, 0 when it does not occur
IndexOf(s, p) ==
    LET hits == {i \in 1..(Len(s) - Len(p) + 1) : SubSeq(s, i, i + Len(p) - 1) = p}
    IN  IF hits = {} THEN 0 ELSE CHOOSE i \in hits : \A j \in hits : i <= j

Includes(s, p) == IndexOf(s, p) # 0

\* String.prototype.replace with a string pattern: the first occurrence only
ReplaceFirst(s, p, r) ==
    LET i == IndexOf(s, p)
    IN  IF i = 0 THEN s
        ELSE SubSeq(s, 1, i - 1) \o r \o SubSeq(s, i + Len(p), Len(s))

\* String.prototype.split on a one-character separator
RECURSIVE Split(_, _)
Split(s, sep) ==
    LET i == IndexOf(s, <<sep>>)
    IN  IF i = 0 THEN <<s>>
        ELSE <<SubSeq(s, 1, i - 1)>> \o Split(SubSeq(s, i + 1, Len(s)), sep)

\* an optional string: undefined, or a string
Undef == [def |-> FALSE, s |-> <<>>]
Some(s) == [def |-> TRUE, s |-> s]
\* !x for an optional string: undefined and "" are falsy
Falsy(o) == ~o.def \/ o.s = <<>>

\* elements.find(el => el.startsWith(p))?.split('=')[1]
FindValue(elements, p) ==
    LET hits == {i \in 1..Len(elements) : StartsWith(elements[i], p)}
    IN  IF hits = {} THEN Undef
        ELSE LET i == CHOOSE k \in hits : \A j \in hits : k <= j
                 parts == Split(elements[i], "=")
             IN  IF Len(parts) >= 2 THEN Some(parts[2]) ELSE Undef

Digits == <<"0", "1", "2", "3", "4", "5", "6", "7", "8", "9">>
IsDigit(c) == \E d \in 1..10 : Digits[d] = c
DigitVal(c) == (CHOOSE d \in 1..10 : Digits[d] = c) - 1

\* String(n) for a natural number
RECURSIVE Decimal(_)
Decimal(n) ==
    IF n < 10 THEN <<Digits[n + 1]>>
    ELSE Decimal(n \div 10) \o <<Digits[(n % 10) + 1]>>

\* String(n), `${n}` for an integer
NumberToString(n) == IF n < 0 THEN <<"-">> \o Decimal(0 - n) ELSE Decimal(n)

RECURSIVE DigitsValue(_, _)
DigitsValue(s, acc) ==
    IF s = <<>> \/ ~IsDigit(Head(s)) THEN acc
    ELSE DigitsValue(Tail(s), acc * 10 + DigitVal(Head(s)))

RECURSIVE SkipSpaces(_)
SkipSpaces(s) == IF s # <<>> /\ Head(s) = " " THEN SkipSpaces(Tail(s)) ELSE s

\* parseInt(s, 10): leading blanks, an optional sign, then the longest run of
\* digits; NaN when there is no digit
NaN == [nan |-> TRUE, n |-> 0]
ParseInt(str) ==
    LET s0 == SkipSpaces(str)
        neg == s0 # <<>> /\ Head(s0) = "-"
        s1 == IF s0 # <<>> /\ Head(s0) \in {"-", "+"} THEN Tail(s0) ELSE s0
    IN  IF s1 = <<>> \/ ~IsDigit(Head(s1)) THEN NaN
        ELSE [nan |-> FALSE,
              n |-> IF neg THEN 0 - DigitsValue(s1, 0) ELSE DigitsValue(s1, 0)]

Abs(x) == IF x < 0 THEN 0 - x ELSE x

(***************************************************************************)
(* The literals of the signature header grammar.                           *)
(***************************************************************************)
PrefixSha256 == <<"s", "h", "a", "2", "5", "6", "=">>
PrefixV1 == <<"v", "1", "=">>
PrefixT == <<"t", "=">>

(***************************************************************************)
(* Values handed to the pipeline.                                          *)
(***************************************************************************)
\* a signature header: null, undefined, or a string of characters
NullSig == [kind |-> "null", s |-> <<>>]
UndefinedSig == [kind |-> "undefined", s |-> <<>>]
StrSig(s) == [kind |-> "string", s |-> s]

\* signature || null
OrNull(h) == IF h.kind # "string" \/ h.s = <<>> THEN NullSig ELSE h

\* the configured secret: a string, or Absent when the variable is not set
Absent == "<absent>"
\* !webhookSecret
SecretMissing(secret) == secret = Absent \/ secret = ""
\* encoder.encode(secret): an undefined input encodes as the empty string
KeyBytes(secret) == IF secret = Absent THEN "" ELSE secret

(***************************************************************************)
(* State of one pipeline run and of its environment.                       *)
(***************************************************************************)
VARIABLES
    pc,           \* position of the run
    pipeline,     \* "handle" (WebhookReceiver.handle) or "processWebhook"
    secret,       \* THOR_WEBHOOK_SECRET as configured
    rawBody,      \* the request body: [raw, json]
    signature,    \* the signature header as received
    sent,         \* the body and the header as the sender produced them
    now,          \* Math.floor(Date.now() / 1000) at delivery
    rejectsEmptyKey, \* whether the platform's importKey refuses a zero-length key
    supplied,     \* the callbacks given to processWebhook
    env,          \* handler configuration: [thor, aws, toleranceSeconds]
    steps,        \* the steps the run has executed, in order
    isValidSignature,
    isValidTimestamp,
    parsed,       \* result of JSON.parse
    validatedEvent,
    pending,      \* the calls the switch still has to make
    invoked,      \* the handlers invoked by the run, in order
    downstream,   \* the id the handler works on, outcomes of its calls
    thrown,       \* the exception in flight
    result,       \* the response of the run
    suspended     \* the other run in flight, while this one has the thread

vars == <<pc, pipeline, secret, rawBody, signature, sent, now, rejectsEmptyKey,
          supplied, env, steps, isValidSignature, isValidTimestamp, parsed,
          validatedEvent, pending, invoked, downstream, thrown, result,
          suspended>>

(***************************************************************************)
(* src/utils/webhookVerification.ts                                        *)
(***************************************************************************)
\* crypto.subtle.importKey: a zero-length HMAC key is a DataError on the
\* platforms that follow the Web Crypto text, and accepted by the others
ImportKeyThrows(key) == key = "" /\ rejectsEmptyKey

\* hex(HMAC-SHA256(key, message)): HexLen characters that no other key or
\* message yields
HmacHex(key, message) == [i \in 1..HexLen |-> ToString(<<key, message, i>>)]

\* a.charCodeAt(i) ^ b.charCodeAt(i): zero exactly for equal characters
CharXor(c1, c2) == IF c1 = c2 THEN 0 ELSE 1
BitOr(x, y) == IF x = 0 /\ y = 0 THEN 0 ELSE 1

RECURSIVE XorAccumulate(_, _, _, _)
XorAccumulate(a, b, i, acc) ==
    IF i > Len(a) THEN acc
    ELSE XorAccumulate(a, b, i + 1, BitOr(acc, CharXor(a[i], b[i])))

\* safeCompare with a loop that stops one character early
safeCompareStopsEarly(a, b) ==
    IF Len(a) # Len(b) THEN FALSE
    ELSE XorAccumulate(SubSeq(a, 1, Len(a) - 1), b, 1, 0) = 0

safeCompare(a, b) ==
    IF Len(a) # Len(b) THEN FALSE
    ELSE XorAccumulate(a, b, 1, 0) = 0

\* ExtractSignature without the test of line 31: a missing timestamp or digest
\* is used as the empty string
ExtractSignatureWithoutGuard(payload, sigStr) ==
    IF StartsWith(sigStr, PrefixSha256)
    THEN [ok |-> TRUE, sig |-> ReplaceFirst(sigStr, PrefixSha256, <<>>),
          payload |-> payload]
    ELSE IF Includes(sigStr, PrefixV1)
    THEN LET elements == Split(sigStr, ",")
             timestamp == FindValue(elements, PrefixT)
             v1Sig == FindValue(elements, PrefixV1)
         IN  [ok |-> TRUE, sig |-> v1Sig.s,
              payload |-> timestamp.s \o <<".">> \o payload]
    ELSE [ok |-> FALSE, sig |-> <<>>, payload |-> payload]

\* ExtractSignature reading the timestamped format by position: t= first, v1=
\* second
ExtractSignatureInOrder(payload, sigStr) ==
    IF StartsWith(sigStr, PrefixSha256)
    THEN [ok |-> TRUE, sig |-> ReplaceFirst(sigStr, PrefixSha256, <<>>),
          payload |-> payload]
    ELSE IF Includes(sigStr, PrefixV1)
    THEN LET elements == Split(sigStr, ",")
             timestamp == FindValue(SubSeq(elements, 1, 1), PrefixT)
             v1Sig == FindValue(SubSeq(elements, 2, 2), PrefixV1)
         IN  IF Falsy(timestamp) \/ Falsy(v1Sig)
             THEN [ok |-> FALSE, sig |-> <<>>, payload |-> payload]
             ELSE [ok |-> TRUE, sig |-> v1Sig.s,
                   payload |-> timestamp.s \o <<".">> \o payload]
    ELSE [ok |-> FALSE, sig |-> <<>>, payload |-> payload]

\* the signature and the signed payload that verification extracts from the
\* header: [ok, sig, payload]; ok is FALSE on the early "return false" paths
ExtractSignature(payload, sigStr) ==
    IF StartsWith(sigStr, PrefixSha256)
    THEN [ok |-> TRUE, sig |-> ReplaceFirst(sigStr, PrefixSha256, <<>>),
          payload |-> payload]
    ELSE IF Includes(sigStr, PrefixV1)
    THEN LET elements == Split(sigStr, ",")
             timestamp == FindValue(elements, PrefixT)
             v1Sig == FindValue(elements, PrefixV1)
         IN  IF Falsy(timestamp) \/ Falsy(v1Sig)
             THEN [ok |-> FALSE, sig |-> <<>>, payload |-> payload]
             ELSE [ok |-> TRUE, sig |-> v1Sig.s,
                   payload |-> timestamp.s \o <<".">> \o payload]
    ELSE [ok |-> FALSE, sig |-> <<>>, payload |-> payload]

\* verifyThorWebhookSignature with the guard of verifyWebhookTimestamp: a missing
\* header passes
verifyAcceptsMissing(payload, sig, key) ==
    IF sig.kind # "string" \/ sig.s = <<>> THEN TRUE
    ELSE LET x == ExtractSignature(payload, sig.s)
         IN  IF ~x.ok THEN FALSE
             ELSE IF ImportKeyThrows(KeyBytes(key)) THEN FALSE
             ELSE safeCompare(HmacHex(KeyBytes(key), x.payload), x.sig)

verifyThorWebhookSignature(payload, sig, key) ==
    IF sig.kind # "string" \/ sig.s = <<>> THEN FALSE
    ELSE LET x == ExtractSignature(payload, sig.s)
         IN  IF ~x.ok THEN FALSE
             ELSE IF ImportKeyThrows(KeyBytes(key)) THEN FALSE
             ELSE safeCompare(HmacHex(KeyBytes(key), x.payload), x.sig)

DefaultTolerance == 300

\* verifyWebhookTimestamp with a strict comparison: diff < toleranceSeconds
verifyWebhookTimestampStrict(sig, toleranceSeconds) ==
    IF sig.kind # "string" \/ sig.s = <<>> THEN TRUE
    ELSE IF ~Includes(sig.s, PrefixT) THEN TRUE
    ELSE LET timestamp == FindValue(Split(sig.s, ","), PrefixT)
         IN  IF Falsy(timestamp) THEN TRUE
             ELSE LET webhookTime == ParseInt(timestamp.s)
                  IN  IF webhookTime.nan THEN FALSE
                      ELSE Abs(now - webhookTime.n) < toleranceSeconds

\* verifyWebhookTimestamp reading t= in the first element of the header only
verifyWebhookTimestampFirstElement(sig, toleranceSeconds) ==
    IF sig.kind # "string" \/ sig.s = <<>> THEN TRUE
    ELSE IF ~Includes(sig.s, PrefixT) THEN TRUE
    ELSE LET timestamp == FindValue(SubSeq(Split(sig.s, ","), 1, 1), PrefixT)
         IN  IF Falsy(timestamp) THEN TRUE
             ELSE LET webhookTime == ParseInt(timestamp.s)
                  IN  IF webhookTime.nan THEN FALSE
                      ELSE Abs(now - webhookTime.n) <= toleranceSeconds

verifyWebhookTimestamp(sig, toleranceSeconds) ==
    IF sig.kind # "string" \/ sig.s = <<>> THEN TRUE
    ELSE IF ~Includes(sig.s, PrefixT) THEN TRUE
    ELSE LET timestamp == FindValue(Split(sig.s, ","), PrefixT)
         IN  IF Falsy(timestamp) THEN TRUE
             ELSE LET webhookTime == ParseInt(timestamp.s)
                  IN  IF webhookTime.nan THEN FALSE
                      ELSE Abs(now - webhookTime.n) <= toleranceSeconds

(***************************************************************************)
(* JSON values, and the ThorWebhookEvent schema of src/types.ts.           *)
(***************************************************************************)
JStr(s) == [t |-> "string", v |-> s]
\* a number, kept as its literal
JNum(lit) == [t |-> "number", v |-> lit]
JObj(fields) == [t |-> "object", f |-> fields]
\* what JSON.parse does with a text that is not JSON: it throws a SyntaxError
JsonSyntaxError == [t |-> "SyntaxError"]

Has(obj, key) == obj.t = "object" /\ key \in DOMAIN obj.f
IsString(obj, key) == Has(obj, key) /\ obj.f[key].t = "string"

\* the strings that z.string().uuid() accepts, among those the model uses
UuidStrings == {"11111111-1111-1111-1111-111111111111",
                "ed7815df-c7bd-4d94-9326-9873967f26f5"}
IsUuid(str) == str \in UuidStrings

\* ThorWebhookEvent.parse succeeds on value
SchemaAccepts(value) ==
    /\ value.t = "object"
    /\ IsString(value, "id")
    /\ IsString(value, "object") /\ value.f["object"].v = "event"
    /\ Has(value, "created") /\ value.f["created"].t = "number"
    /\ IsString(value, "idempotency_key") /\ IsUuid(value.f["idempotency_key"].v)
    /\ Has(value, "data")
    /\ Has(value.f["data"], "object")
    /\ IsString(value.f["data"].f["object"], "id")
    /\ IsString(value, "type")

\* SchemaOutput without .passthrough(): data.object keeps its declared key only
SchemaOutputStrict(value) ==
    JObj([id |-> value.f["id"],
          object |-> value.f["object"],
          created |-> value.f["created"],
          idempotency_key |-> value.f["idempotency_key"],
          data |-> JObj([object |-> JObj([id |-> value.f["data"].f["object"].f["id"]])]),
          type |-> value.f["type"]])

\* the value ThorWebhookEvent.parse returns: z.object keeps the declared keys
\* only, except under data.object, which is declared passthrough
SchemaOutput(value) ==
    JObj([id |-> value.f["id"],
          object |-> value.f["object"],
          created |-> value.f["created"],
          idempotency_key |-> value.f["idempotency_key"],
          data |-> JObj([object |-> value.f["data"].f["object"]]),
          type |-> value.f["type"]])

NoEvent == [t |-> "none"]
EventType(event) == event.f["type"].v
ResourceId(event) == event.f["data"].f["object"].f["id"].v

\* enum ThorEventType
ORDER_CREATED == "order.created"
ORDER_UPDATED == "order.updated"
ORDER_PAYMENT_STATE_CHANGED == "order.payment_state.changed"
ORDER_FULFILLMENT_STATE_CHANGED == "order.fulfillment_state.changed"
ORDER_CANCELLED == "order.cancelled"

(***************************************************************************)
(* The requests and configurations the model delivers.                     *)
(***************************************************************************)
EventJson(type) ==
    JObj([id |-> JStr("whr_1"),
          object |-> JStr("event"),
          created |-> JNum("1700000000"),
          idempotency_key |-> JStr("11111111-1111-1111-1111-111111111111"),
          data |-> JObj([object |-> JObj([id |-> JStr("order_1")])]),
          type |-> JStr(type)])

\* a request body: its characters, and what JSON.parse makes of them
Body(tag, json) == [raw |-> <<"{", tag, "}">>, json |-> json]

ValidBodies ==
    { Body(type, EventJson(type)) :
        type \in {ORDER_CREATED, ORDER_UPDATED, ORDER_PAYMENT_STATE_CHANGED,
                  ORDER_FULFILLMENT_STATE_CHANGED, ORDER_CANCELLED, "Order.Created"} }

\* a well-formed event with one more field at the top and one under data.object
ExtraFieldsBody ==
    Body("extra",
         JObj([id |-> JStr("whr_2"), object |-> JStr("event"),
               created |-> JNum("1765383150"),
               idempotency_key |-> JStr("ed7815df-c7bd-4d94-9326-9873967f26f5"),
               data |-> JObj([object |-> JObj([id |-> JStr("order_2"),
                                               status |-> JStr("open")])]),
               type |-> JStr(ORDER_CREATED),
               livemode |-> JStr("no")]))

MalformedBody == [raw |-> <<"{", "id">>, json |-> JsonSyntaxError]

SchemaInvalidBodies ==
    { \* idempotency_key is missing
      Body("nokey",
           JObj([id |-> JStr("whr_1"), object |-> JStr("event"),
                 created |-> JNum("1700000000"),
                 data |-> JObj([object |-> JObj([id |-> JStr("order_1")])]),
                 type |-> JStr(ORDER_CREATED)])),
      \* idempotency_key is not a UUID (the README's curl example)
      Body("baduuid",
           [EventJson(ORDER_CREATED) EXCEPT !.f["idempotency_key"] = JStr("test-key")]),
      \* created has the wrong type
      Body("badtype",
           [EventJson(ORDER_CREATED) EXCEPT !.f["created"] = JStr("1700000000")]),
      \* the object literal is wrong
      Body("badliteral",
           [EventJson(ORDER_CREATED) EXCEPT !.f["object"] = JStr("order")]),
      \* JSON, but not an object
      [raw |-> <<"1", "2">>, json |-> JNum("12")] }

\* events with an empty string where an identifier is expected, or with a
\* fraction where the timestamp is expected
DegenerateBodies ==
    { Body("emptyid", [EventJson(ORDER_CREATED) EXCEPT !.f["id"] = JStr("")]),
      Body("emptytype", [EventJson(ORDER_CREATED) EXCEPT !.f["type"] = JStr("")]),
      Body("emptyresource",
           [EventJson(ORDER_CREATED) EXCEPT
               !.f["data"] = JObj([object |-> JObj([id |-> JStr("")])])]),
      Body("fraction", [EventJson(ORDER_CREATED) EXCEPT !.f["created"] = JNum("1.5")]) }

\* the number literals of the model that denote an integer
IntegerLiterals == {"1700000000", "1765383150", "12"}

Bodies ==
    ValidBodies \cup {ExtraFieldsBody, MalformedBody} \cup SchemaInvalidBodies
        \cup DegenerateBodies

ConfiguredSecret == "whsec_test"
Secrets == {Absent, "", ConfiguredSecret}
\* the keys a sender may sign with: the shared secret, another one, none
SenderKeys == {ConfiguredSecret, "whsec_other", ""}

\* "sha256=<hex>"
SimpleHeader(key, raw) == PrefixSha256 \o HmacHex(key, raw)
\* the digest of the timestamped format, over "<t>.<body>"
TimestampDigest(key, t, raw) == HmacHex(key, NumberToString(t) \o <<".">> \o raw)
\* "t=<unix>,v1=<hex>"
TimestampedHeader(key, t, raw) ==
    PrefixT \o NumberToString(t) \o <<",">> \o PrefixV1 \o TimestampDigest(key, t, raw)
\* "v1=<hex>,t=<unix>"
ReversedHeader(key, t, raw) ==
    PrefixV1 \o TimestampDigest(key, t, raw) \o <<",">> \o PrefixT \o NumberToString(t)

\* the headers a sender holding key produces for a body it signs at SignTime
SignedHeaders(key, raw) ==
    { SimpleHeader(key, raw),
      TimestampedHeader(key, SignTime, raw),
      ReversedHeader(key, SignTime, raw) }

\* headers that nobody signed, or that were altered after signing
OtherHeaders(raw) ==
    { <<"a", "b", "c">>,
      \* a digest without its timestamp, a timestamp without its digest
      PrefixV1 \o TimestampDigest(ConfiguredSecret, SignTime, raw),
      PrefixT \o Decimal(SignTime),
      \* the timestamp moved forward under the digest of the original one
      PrefixT \o Decimal(SignTime + 301) \o <<",">> \o PrefixV1
          \o TimestampDigest(ConfiguredSecret, SignTime, raw),
      \* the last character of the digest changed
      PrefixSha256 \o SubSeq(HmacHex(ConfiguredSecret, raw), 1, HexLen - 1) \o <<"0">> }

Signatures(raw) ==
    {NullSig, UndefinedSig, StrSig(<<>>)}
    \cup { StrSig(h) : h \in UNION { SignedHeaders(k, raw) : k \in SenderKeys } }
    \cup { StrSig(h) : h \in OtherHeaders(raw) }

\* the readings of the clock at delivery
Clock == {SignTime, SignTime + DefaultTolerance, SignTime + DefaultTolerance + 1}

\* interface WebhookEventHandlers
Callbacks == {"onOrderCreated", "onOrderPaymentStateChanged",
              "onOrderFulfillmentStateChanged", "onOrderCancelled", "onOtherEvent"}
SuppliedSets == { {}, Callbacks, {"onOtherEvent"}, {"onOrderCreated", "onOrderCancelled"} }

\* a tolerance that a configuration may carry beside the bindings the code reads
WiderTolerance == DefaultTolerance + DefaultTolerance
\* no override (<<>>), or the override
ToleranceOverrides == {<<>>, <<WiderTolerance>>}

\* the handler configuration: API credentials present, SES credentials present,
\* and the tolerance override
Envs == [thor : BOOLEAN, aws : BOOLEAN, toleranceSeconds : ToleranceOverrides]

(***************************************************************************)
(* Responses.                                                              *)
(***************************************************************************)
NoResult == [statusCode |-> 0, success |-> FALSE, error |-> "", message |-> ""]
Failure(code, error) ==
    [statusCode |-> code, success |-> FALSE, error |-> error, message |-> ""]
Success ==
    [statusCode |-> 200, success |-> TRUE, error |-> "",
     message |-> "Webhook processed successfully"]

InvalidSignatureResponse == Failure(401, "Invalid signature")
InvalidTimestampResponse == Failure(401, "Invalid timestamp")

NoDownstream == [orderId |-> "", fetch |-> "none", send |-> "none"]

(***************************************************************************)
(* Dispatch.  A switch statement is its cases in order, each with the call *)
(* its body makes ("" for none) and whether the body ends with break; the  *)
(* body of the matching case runs, and the following ones until a break.   *)
(***************************************************************************)
Case(label, call, brk) == [label |-> label, call |-> call, brk |-> brk]

\* index of the case that matches the value exactly, else of the default
MatchIndex(cases, value) ==
    LET hits == {i \in 1..Len(cases) : cases[i].label = value}
    IN  IF hits # {} THEN CHOOSE i \in hits : \A j \in hits : i <= j
        ELSE CHOOSE i \in 1..Len(cases) : cases[i].label = "default"

RECURSIVE RunFrom(_, _)
RunFrom(cases, i) ==
    IF i > Len(cases) THEN <<>>
    ELSE (IF cases[i].call = "" THEN <<>> ELSE <<cases[i].call>>)
         \o (IF cases[i].brk THEN <<>> ELSE RunFrom(cases, i + 1))

\* the calls a switch makes for a value, in order
Switch(cases, value) == RunFrom(cases, MatchIndex(cases, value))

\* the handlers that src/handlers/index.ts exports
ExportedHandlers == {"handleOrderCreated", "handleOrderPaymentStateChanged",
                     "handleOrderFulfillmentStateChanged"}

\* handleWebhookEvent with the break of its first case missing
handleWebhookEventFallsThrough(type) ==
    Switch(<< Case(ORDER_CREATED, "handleOrderCreated", FALSE),
              Case(ORDER_PAYMENT_STATE_CHANGED, "handleOrderPaymentStateChanged", TRUE),
              Case(ORDER_FULFILLMENT_STATE_CHANGED,
                   "handleOrderFulfillmentStateChanged", TRUE),
              Case("default", "", TRUE) >>,
           type)

\* WebhookReceiver.handleWebhookEvent
handleWebhookEvent(type) ==
    Switch(<< Case(ORDER_CREATED, "handleOrderCreated", TRUE),
              Case(ORDER_PAYMENT_STATE_CHANGED, "handleOrderPaymentStateChanged", TRUE),
              Case(ORDER_FULFILLMENT_STATE_CHANGED,
                   "handleOrderFulfillmentStateChanged", TRUE),
              Case("default", "", TRUE) >>,
           type)

\* if (handlers.x) await handlers.x(...)
IfSupplied(handlers, callback) == IF callback \in handlers THEN callback ELSE ""

\* the switch of processWebhook with a default that calls onOtherEvent unguarded
processWebhookSwitchUnguarded(type, handlers) ==
    Switch(<< Case(ORDER_CREATED, IfSupplied(handlers, "onOrderCreated"), TRUE),
              Case(ORDER_PAYMENT_STATE_CHANGED,
                   IfSupplied(handlers, "onOrderPaymentStateChanged"), TRUE),
              Case(ORDER_FULFILLMENT_STATE_CHANGED,
                   IfSupplied(handlers, "onOrderFulfillmentStateChanged"), TRUE),
              Case(ORDER_CANCELLED, IfSupplied(handlers, "onOrderCancelled"), TRUE),
              Case("default", "onOtherEvent", TRUE) >>,
           type)

\* the switch of processWebhook
processWebhookSwitch(type, handlers) ==
    Switch(<< Case(ORDER_CREATED, IfSupplied(handlers, "onOrderCreated"), TRUE),
              Case(ORDER_PAYMENT_STATE_CHANGED,
                   IfSupplied(handlers, "onOrderPaymentStateChanged"), TRUE),
              Case(ORDER_FULFILLMENT_STATE_CHANGED,
                   IfSupplied(handlers, "onOrderFulfillmentStateChanged"), TRUE),
              Case(ORDER_CANCELLED, IfSupplied(handlers, "onOrderCancelled"), TRUE),
              Case("default", IfSupplied(handlers, "onOtherEvent"), TRUE) >>,
           type)

(***************************************************************************)
(* The run.                                                                *)
(***************************************************************************)
\* a run that has not received its request
IdleFrame ==
    [pc |-> "idle", pipeline |-> "handle", secret |-> Absent,
     rawBody |-> MalformedBody, signature |-> NullSig,
     sent |-> [raw |-> MalformedBody.raw, signature |-> NullSig],
     now |-> SignTime, supplied |-> {}, env |-> [thor |-> FALSE, aws |-> FALSE, toleranceSeconds |-> <<>>],
     steps |-> <<>>, isValidSignature |-> FALSE, isValidTimestamp |-> FALSE,
     parsed |-> NoEvent, validatedEvent |-> NoEvent, pending |-> <<>>,
     invoked |-> <<>>, downstream |-> NoDownstream, thrown |-> "none",
     result |-> NoResult]

Init ==
    /\ pc = "idle"
    /\ pipeline = "handle"
    /\ secret = Absent
    /\ rawBody = MalformedBody
    /\ signature = NullSig
    /\ sent = [raw |-> rawBody.raw, signature |-> signature]
    /\ now = SignTime
    /\ rejectsEmptyKey \in BOOLEAN
    /\ supplied = {}
    /\ env = [thor |-> FALSE, aws |-> FALSE, toleranceSeconds |-> <<>>]
    /\ steps = <<>>
    /\ isValidSignature = FALSE
    /\ isValidTimestamp = FALSE
    /\ parsed = NoEvent
    /\ validatedEvent = NoEvent
    /\ pending = <<>>
    /\ invoked = <<>>
    /\ downstream = NoDownstream
    /\ thrown = "none"
    /\ result = NoResult
    /\ suspended = IdleFrame

Locals == <<isValidSignature, isValidTimestamp, parsed, validatedEvent, pending,
            invoked, downstream, thrown, result>>
\* what a step of a run does not write: its inputs, and the other run
Inputs == <<pipeline, secret, rawBody, signature, sent, now, rejectsEmptyKey,
            supplied, env, suspended>>

\* a request arrives at the route (handle), or a host calls processWebhook
Receive ==
    /\ pc = "idle"
    /\ \E p \in {"handle", "processWebhook"}, k \in Secrets, b \in Bodies, t \in Clock :
         \E sig \in Signatures(b.raw) :
            /\ pipeline' = p
            /\ secret' = k
            /\ rawBody' = b
            /\ signature' = sig
            \* the request arrives as it was sent
            /\ sent' = [raw |-> b.raw, signature |-> sig]
            /\ now' = t
            \* c.req.header gives a string or undefined, never null
            /\ p = "handle" => sig.kind # "null"
            /\ pc' = IF p = "handle" THEN "secret" ELSE "verify"
    /\ \/ /\ pipeline' = "handle"
          /\ supplied' = {}
          /\ env' \in Envs
       \/ /\ pipeline' = "processWebhook"
          /\ supplied' \in SuppliedSets
          /\ \E o \in ToleranceOverrides :
                env' = [thor |-> TRUE, aws |-> TRUE, toleranceSeconds |-> o]
    /\ steps' = <<>>
    /\ UNCHANGED <<rejectsEmptyKey, Locals, suspended>>

\* handle, lines 63-67
CheckSecret ==
    /\ pc = "secret"
    /\ steps' = Append(steps, "secret")
    /\ IF SecretMissing(secret)
       THEN /\ result' = Failure(500, "Webhook secret not configured")
            /\ pc' = "done"
       ELSE /\ pc' = "verify"
            /\ UNCHANGED result
    /\ UNCHANGED <<Inputs, isValidSignature, isValidTimestamp, parsed, validatedEvent,
                   pending, invoked, downstream, thrown>>

\* Verify without the return of its failure branch
VerifyWithoutReturn ==
    /\ pc = "verify"
    /\ steps' = Append(steps, "verify")
    /\ isValidSignature' =
           verifyThorWebhookSignature(rawBody.raw, OrNull(signature), secret)
    /\ pc' = "timestamp"
    /\ UNCHANGED <<Inputs, isValidTimestamp, parsed, validatedEvent, pending,
                   invoked, downstream, thrown, result>>

Verify ==
    /\ pc = "verify"
    /\ steps' = Append(steps, "verify")
    /\ isValidSignature' =
           verifyThorWebhookSignature(rawBody.raw, OrNull(signature), secret)
    /\ IF ~isValidSignature'
       THEN /\ result' = InvalidSignatureResponse
            /\ pc' = "done"
       ELSE /\ pc' = "timestamp"
            /\ UNCHANGED result
    /\ UNCHANGED <<Inputs, isValidTimestamp, parsed, validatedEvent, pending,
                   invoked, downstream, thrown>>

CheckTimestamp ==
    /\ pc = "timestamp"
    /\ steps' = Append(steps, "timestamp")
    /\ isValidTimestamp' = verifyWebhookTimestamp(OrNull(signature), DefaultTolerance)
    /\ IF ~isValidTimestamp'
       THEN /\ result' = InvalidTimestampResponse
            /\ pc' = "done"
       ELSE /\ pc' = "parse"
            /\ UNCHANGED result
    /\ UNCHANGED <<Inputs, isValidSignature, parsed, validatedEvent, pending,
                   invoked, downstream, thrown>>

\* JSON.parse(rawBody)
Parse ==
    /\ pc = "parse"
    /\ steps' = Append(steps, "parse")
    /\ IF rawBody.json.t = "SyntaxError"
       THEN /\ thrown' = "SyntaxError"
            /\ pc' = "catch"
            /\ UNCHANGED parsed
       ELSE /\ parsed' = rawBody.json
            /\ pc' = "validate"
            /\ UNCHANGED thrown
    /\ UNCHANGED <<Inputs, isValidSignature, isValidTimestamp, validatedEvent, pending,
                   invoked, downstream, result>>

\* ThorWebhookEvent.parse(event)
Validate ==
    /\ pc = "validate"
    /\ steps' = Append(steps, "validate")
    /\ IF SchemaAccepts(parsed)
       THEN /\ validatedEvent' = SchemaOutput(parsed)
            /\ pc' = "dispatch"
            /\ UNCHANGED thrown
       ELSE /\ thrown' = "ZodError"
            /\ pc' = "catch"
            /\ UNCHANGED validatedEvent
    /\ UNCHANGED <<Inputs, isValidSignature, isValidTimestamp, parsed, pending, invoked,
                   downstream, result>>

\* the switch on validatedEvent.type
Dispatch ==
    /\ pc = "dispatch"
    /\ steps' = Append(steps, "dispatch")
    /\ pending' = IF pipeline = "handle"
                  THEN handleWebhookEvent(EventType(validatedEvent))
                  ELSE processWebhookSwitch(EventType(validatedEvent), supplied)
    /\ pc' = "call"
    /\ UNCHANGED <<Inputs, isValidSignature, isValidTimestamp, parsed, validatedEvent,
                   invoked, downstream, thrown, result>>

\* Call with a handler that works on event.id
CallWithEventId ==
    /\ pc = "call"
    /\ IF pending = <<>>
       THEN /\ pc' = "respond"
            /\ UNCHANGED <<pending, invoked, steps, downstream>>
       ELSE /\ invoked' = Append(invoked, Head(pending))
            /\ pending' = Tail(pending)
            /\ steps' = Append(steps, "handler")
            /\ downstream' = [downstream EXCEPT !.orderId = validatedEvent.f["id"].v]
            /\ pc' = IF pipeline = "handle" THEN "h_client" ELSE "callback"
    /\ UNCHANGED <<Inputs, isValidSignature, isValidTimestamp, parsed, validatedEvent,
                   thrown, result>>

\* the next call of the switch, or the end of the switch; the handler is given
\* the envelope and works on event.data.object.id
Call ==
    /\ pc = "call"
    /\ IF pending = <<>>
       THEN /\ pc' = "respond"
            /\ UNCHANGED <<pending, invoked, steps, downstream>>
       ELSE /\ invoked' = Append(invoked, Head(pending))
            /\ pending' = Tail(pending)
            /\ steps' = Append(steps, "handler")
            /\ downstream' = [downstream EXCEPT !.orderId = ResourceId(validatedEvent)]
            /\ pc' = IF pipeline = "handle" THEN "h_client" ELSE "callback"
    /\ UNCHANGED <<Inputs, isValidSignature, isValidTimestamp, parsed, validatedEvent,
                   thrown, result>>

CurrentHandler == invoked[Len(invoked)]

HandlerFrame == <<Inputs, steps, isValidSignature, isValidTimestamp, parsed,
                  validatedEvent, pending, invoked, result>>

\* createThorClientFromEnv(c.env), first statement of each exported handler
HandlerClient ==
    /\ pc = "h_client"
    /\ IF env.thor
       THEN pc' = "h_fetch" /\ UNCHANGED thrown
       ELSE pc' = "catch" /\ thrown' = "Error"
    /\ UNCHANGED <<HandlerFrame, downstream>>

\* await client.request(GetOrderDocument, {id}) and what the handler does with
\* the answer: the request fails, or answers with no order, with an order that
\* lacks a part the handler reads, or with the order
HandlerFetch ==
    /\ pc = "h_fetch"
    /\ \E outcome \in {"error", "null", "incomplete", "order"} :
         /\ downstream' = [downstream EXCEPT !.fetch = outcome]
         /\ CASE outcome = "error" ->
                   pc' = "catch" /\ thrown' = "Error"
              [] outcome = "incomplete" ->
                   \* a property read on a part the order lacks (order.customer.email)
                   pc' = "catch" /\ thrown' = "TypeError"
              [] outcome = "null" /\ CurrentHandler = "handleOrderCreated" ->
                   \* console.error("Order not found"); return
                   pc' = "call" /\ UNCHANGED thrown
              [] outcome = "null" /\ CurrentHandler # "handleOrderCreated" ->
                   \* order.id on a null order
                   pc' = "catch" /\ thrown' = "TypeError"
              [] outcome = "order" /\ CurrentHandler = "handleOrderCreated" ->
                   pc' = "h_provider" /\ UNCHANGED thrown
              [] OTHER ->
                   pc' = "call" /\ UNCHANGED thrown
    /\ UNCHANGED HandlerFrame

\* handleOrderCreated: createEmailProviderFromEnv(c.env)
HandlerProvider ==
    /\ pc = "h_provider"
    /\ IF env.aws
       THEN pc' = "h_send" /\ UNCHANGED thrown
       ELSE pc' = "catch" /\ thrown' = "Error"
    /\ UNCHANGED <<HandlerFrame, downstream>>

\* handleOrderCreated: await emailProvider.sendEmail(...); SESProvider.sendEmail
\* catches every error and answers {success: false}, which the handler logs
HandlerSend ==
    /\ pc = "h_send"
    /\ \E outcome \in {"sent", "failed"} :
         downstream' = [downstream EXCEPT !.send = outcome]
    /\ pc' = "call"
    /\ UNCHANGED <<HandlerFrame, thrown>>

\* a callback given to processWebhook returns, or throws
Callback ==
    /\ pc = "callback"
    /\ \/ pc' = "call" /\ UNCHANGED thrown
       \/ pc' = "catch" /\ thrown' = "Error"
    /\ UNCHANGED <<HandlerFrame, downstream>>

\* the success response
Respond ==
    /\ pc = "respond"
    /\ steps' = Append(steps, "respond")
    /\ result' = Success
    /\ pc' = "done"
    /\ UNCHANGED <<Inputs, isValidSignature, isValidTimestamp, parsed, validatedEvent,
                   pending, invoked, downstream, thrown>>

\* the catch block of handle and of processWebhook
CatchResult(error) ==
    IF error = "ZodError" THEN Failure(400, "Invalid webhook payload")
    ELSE Failure(500, "Internal server error")

\* a catch block that answers a ZodError and rethrows every other error
CatchRethrows ==
    /\ pc = "catch"
    /\ steps' = Append(steps, "catch")
    /\ IF thrown = "ZodError"
       THEN result' = CatchResult(thrown) /\ pc' = "done"
       ELSE pc' = "escaped" /\ UNCHANGED result
    /\ UNCHANGED <<Inputs, isValidSignature, isValidTimestamp, parsed, validatedEvent,
                   pending, invoked, downstream, thrown>>

Catch ==
    /\ pc = "catch"
    /\ steps' = Append(steps, "catch")
    /\ result' = CatchResult(thrown)
    /\ pc' = "done"
    /\ UNCHANGED <<Inputs, isValidSignature, isValidTimestamp, parsed, validatedEvent,
                   pending, invoked, downstream, thrown>>

\* the run is over and nothing of it is kept
Reset ==
    /\ pc = "done"
    /\ pc' = "idle"
    /\ pipeline' = "handle"
    /\ secret' = Absent
    /\ rawBody' = MalformedBody
    /\ signature' = NullSig
    /\ sent' = [raw |-> rawBody'.raw, signature |-> signature']
    /\ now' = SignTime
    /\ supplied' = {}
    /\ env' = [thor |-> FALSE, aws |-> FALSE, toleranceSeconds |-> <<>>]
    /\ steps' = <<>>
    /\ isValidSignature' = FALSE
    /\ isValidTimestamp' = FALSE
    /\ parsed' = NoEvent
    /\ validatedEvent' = NoEvent
    /\ pending' = <<>>
    /\ invoked' = <<>>
    /\ downstream' = NoDownstream
    /\ thrown' = "none"
    /\ result' = NoResult
    /\ UNCHANGED <<rejectsEmptyKey, suspended>>

Next ==
    \/ Receive
    \/ CheckSecret
    \/ Verify
    \/ CheckTimestamp
    \/ Parse
    \/ Validate
    \/ Dispatch
    \/ Call
    \/ HandlerClient
    \/ HandlerFetch
    \/ HandlerProvider
    \/ HandlerSend
    \/ Callback
    \/ Respond
    \/ Catch
    \/ Reset

Spec == Init /\ [][Next]_vars

\* the steps of a run that has been received: the continuations of the async
\* function
RunStep ==
    \/ CheckSecret
    \/ Verify
    \/ CheckTimestamp
    \/ Parse
    \/ Validate
    \/ Dispatch
    \/ Call
    \/ HandlerClient
    \/ HandlerFetch
    \/ HandlerProvider
    \/ HandlerSend
    \/ Callback
    \/ Respond
    \/ Catch

(***************************************************************************)
(* Two runs in flight at once.  One run has the thread and takes its       *)
(* steps; the other is suspended, its locals kept in its own frame (they   *)
(* are locals of one call of the async function).  The thread may pass     *)
(* from one run to the other between any two steps, which includes every   *)
(* await of the code.                                                      *)
(***************************************************************************)
\* the frame of the run that has the thread
Frame ==
    [pc |-> pc, pipeline |-> pipeline, secret |-> secret, rawBody |-> rawBody,
     signature |-> signature, sent |-> sent, now |-> now, supplied |-> supplied,
     env |-> env, steps |-> steps, isValidSignature |-> isValidSignature,
     isValidTimestamp |-> isValidTimestamp, parsed |-> parsed,
     validatedEvent |-> validatedEvent, pending |-> pending, invoked |-> invoked,
     downstream |-> downstream, thrown |-> thrown, result |-> result]

\* the requests delivered while another may be in flight
ConcurrentBodies ==
    { Body(ORDER_CREATED, EventJson(ORDER_CREATED)),
      [ExtraFieldsBody EXCEPT !.json.f["type"] = JStr(ORDER_PAYMENT_STATE_CHANGED)],
      Body(ORDER_CANCELLED, EventJson(ORDER_CANCELLED)),
      MalformedBody }

ConcurrentHeaders(raw) ==
    { StrSig(SimpleHeader(ConfiguredSecret, raw)),
      StrSig(TimestampedHeader(ConfiguredSecret, SignTime, raw)),
      StrSig(<<"a", "b", "c">>) }

ConcurrentClock == {SignTime, SignTime + DefaultTolerance + 1}

\* a request arrives for the run that has the thread
Arrive ==
    /\ pc = "idle"
    /\ \E p \in {"handle", "processWebhook"}, b \in ConcurrentBodies,
          t \in ConcurrentClock :
         \E sig \in ConcurrentHeaders(b.raw) :
            /\ pipeline' = p
            /\ rawBody' = b
            /\ signature' = sig
            /\ sent' = [raw |-> b.raw, signature |-> sig]
            /\ now' = t
            /\ supplied' = IF p = "handle" THEN {} ELSE Callbacks
            /\ pc' = IF p = "handle" THEN "secret" ELSE "verify"
    /\ secret' = ConfiguredSecret
    /\ env' = [thor |-> TRUE, aws |-> TRUE, toleranceSeconds |-> <<>>]
    /\ steps' = <<>>
    /\ UNCHANGED <<rejectsEmptyKey, Locals, suspended>>

\* ContextSwitch with validatedEvent kept in one variable for all runs
ContextSwitchSharingEvent ==
    /\ suspended.pc # "idle" \/ pc # "idle"
    /\ suspended' = Frame
    /\ pc' = suspended.pc
    /\ pipeline' = suspended.pipeline
    /\ secret' = suspended.secret
    /\ rawBody' = suspended.rawBody
    /\ signature' = suspended.signature
    /\ sent' = suspended.sent
    /\ now' = suspended.now
    /\ supplied' = suspended.supplied
    /\ env' = suspended.env
    /\ steps' = suspended.steps
    /\ isValidSignature' = suspended.isValidSignature
    /\ isValidTimestamp' = suspended.isValidTimestamp
    /\ parsed' = suspended.parsed
    /\ pending' = suspended.pending
    /\ invoked' = suspended.invoked
    /\ downstream' = suspended.downstream
    /\ thrown' = suspended.thrown
    /\ result' = suspended.result
    /\ UNCHANGED <<rejectsEmptyKey, validatedEvent>>

\* the run that has the thread is suspended and the other one resumes
ContextSwitch ==
    /\ suspended.pc # "idle" \/ pc # "idle"
    /\ suspended' = Frame
    /\ pc' = suspended.pc
    /\ pipeline' = suspended.pipeline
    /\ secret' = suspended.secret
    /\ rawBody' = suspended.rawBody
    /\ signature' = suspended.signature
    /\ sent' = suspended.sent
    /\ now' = suspended.now
    /\ supplied' = suspended.supplied
    /\ env' = suspended.env
    /\ steps' = suspended.steps
    /\ isValidSignature' = suspended.isValidSignature
    /\ isValidTimestamp' = suspended.isValidTimestamp
    /\ parsed' = suspended.parsed
    /\ validatedEvent' = suspended.validatedEvent
    /\ pending' = suspended.pending
    /\ invoked' = suspended.invoked
    /\ downstream' = suspended.downstream
    /\ thrown' = suspended.thrown
    /\ result' = suspended.result
    /\ UNCHANGED rejectsEmptyKey

ConcurrentNext ==
    \/ Arrive
    \/ RunStep
    \/ ContextSwitch

ConcurrentSpec == Init /\ [][ConcurrentNext]_vars

(***************************************************************************)
(* The two verifiers called on their own, as a host or a test calls them:  *)
(* verifyThorWebhookSignature(payload, signature, secret), then            *)
(* verifyWebhookTimestamp(signature); and called again on a request of     *)
(* which one character was changed after the sender produced it.           *)
(***************************************************************************)
\* the timestamps a sender puts in a header
HeaderTimes == {SignTime, 0, 0 - 5}

\* the readings of the clock at the call: up to one second beyond the tolerance
\* on either side of SignTime
VerifierClock == {SignTime - DefaultTolerance - 1, SignTime - DefaultTolerance,
                  SignTime, SignTime + DefaultTolerance,
                  SignTime + DefaultTolerance + 1}

\* secret: string, as the caller passes it (undefined when the configuration
\* lacks it)
VerifierSecrets == Secrets \cup {"whsec_other"}

VerifierBodies ==
    { MalformedBody,
      [raw |-> <<>>, json |-> JsonSyntaxError],
      [raw |-> <<"1", ".", "2">>, json |-> JNum("1.2")] }

\* "t=<text>,v1=<hex>" signed over "<text>.<body>", for any text in place of
\* the timestamp
HeaderWithTimestampText(key, text, raw) ==
    PrefixT \o text \o <<",">> \o PrefixV1 \o HmacHex(key, text \o <<".">> \o raw)

\* the headers of the two documented forms that a sender holding key produces
GrammarHeaders(key, raw) ==
    {SimpleHeader(key, raw)}
    \cup { TimestampedHeader(key, t, raw) : t \in HeaderTimes }
    \cup { ReversedHeader(key, t, raw) : t \in HeaderTimes }

\* signed headers whose t= value is not an integer: no digit at all, or empty
MalformedTimestampHeaders(key, raw) ==
    { HeaderWithTimestampText(key, <<"a", "b", "c">>, raw),
      HeaderWithTimestampText(key, <<>>, raw) }

\* signed headers with more in them than the two components: a further pair,
\* a further "=" after the timestamp
LooseHeaders(key, raw) ==
    { TimestampedHeader(key, SignTime, raw) \o <<",", "v", "0", "=", "z">>,
      PrefixT \o NumberToString(SignTime) \o <<"=", "z", ",">> \o PrefixV1
          \o TimestampDigest(key, SignTime, raw) }

\* signed headers whose t= value is an integer followed by more text, and
\* with a second t= component after the signed one
AmbiguousTimestampHeaders(key, raw) ==
    { HeaderWithTimestampText(key, NumberToString(SignTime) \o <<"x">>, raw),
      TimestampedHeader(key, SignTime, raw) \o <<",">> \o PrefixT \o <<"5">> }

\* headers of neither form
NeitherFormHeaders == { <<"a", "b", "c">>, <<"t", "=", "5">>, <<"s", "h", "a", "=", "0">> }

\* timestamped headers that lack the value of t= or of v1=
MissingValueHeaders(key, raw) ==
    { PrefixV1 \o TimestampDigest(key, SignTime, raw),
      PrefixT \o <<",">> \o PrefixV1 \o TimestampDigest(key, SignTime, raw),
      PrefixT \o NumberToString(SignTime) \o <<",">> \o PrefixV1,
      <<"t", ",">> \o PrefixV1 \o TimestampDigest(key, SignTime, raw) }

VerifierHeaders(raw) ==
    {NullSig, StrSig(<<>>)}
    \cup { StrSig(h) : h \in UNION { GrammarHeaders(k, raw) \cup LooseHeaders(k, raw)
                                       \cup MalformedTimestampHeaders(k, raw)
                                       \cup AmbiguousTimestampHeaders(k, raw)
                                       \cup MissingValueHeaders(k, raw) :
                                     k \in SenderKeys } }
    \cup { StrSig(h) : h \in NeitherFormHeaders \cup OtherHeaders(raw) }

\* the characters an altered request may carry in place of the original one
TamperChars == {"0", "9", "x", "=", ",", "t", "v", "1"}

VerifierInit ==
    /\ pc = "v_call"
    /\ pipeline = "verifier"
    /\ secret \in VerifierSecrets
    /\ rawBody \in VerifierBodies
    /\ signature \in VerifierHeaders(rawBody.raw)
    /\ sent = [raw |-> rawBody.raw, signature |-> signature]
    /\ now \in VerifierClock
    /\ rejectsEmptyKey \in BOOLEAN
    /\ supplied = {}
    /\ env = [thor |-> FALSE, aws |-> FALSE, toleranceSeconds |-> <<>>]
    /\ steps = <<>>
    /\ isValidSignature = FALSE
    /\ isValidTimestamp = FALSE
    /\ parsed = NoEvent
    /\ validatedEvent = NoEvent
    /\ pending = <<>>
    /\ invoked = <<>>
    /\ downstream = NoDownstream
    /\ thrown = "none"
    /\ result = NoResult
    /\ suspended = IdleFrame

\* isValidSignature = await verifyThorWebhookSignature(payload, signature, secret)
CallVerifySignature ==
    /\ pc = "v_call"
    /\ isValidSignature' = verifyThorWebhookSignature(rawBody.raw, signature, secret)
    /\ steps' = Append(steps, "verify")
    /\ pc' = "v_checked"
    /\ UNCHANGED <<Inputs, isValidTimestamp, parsed, validatedEvent, pending, invoked,
                   downstream, thrown, result>>

\* isValidTimestamp = verifyWebhookTimestamp(signature)
CallVerifyTimestamp ==
    /\ pc = "v_checked"
    /\ isValidTimestamp' = verifyWebhookTimestamp(signature, DefaultTolerance)
    /\ steps' = Append(steps, "timestamp")
    /\ pc' = "v_done"
    /\ UNCHANGED <<Inputs, isValidSignature, parsed, validatedEvent, pending, invoked,
                   downstream, thrown, result>>

\* one character of the body, or of the header, of a request that verified is
\* replaced by another, and the verifier is called on the altered request
Tamper ==
    /\ pc = "v_checked"
    /\ isValidSignature
    /\ \E c \in TamperChars :
          \/ \E i \in 1..Len(rawBody.raw) :
                /\ rawBody.raw[i] # c
                /\ rawBody' = [rawBody EXCEPT !.raw[i] = c]
                /\ UNCHANGED signature
          \/ \E i \in 1..Len(signature.s) :
                /\ signature.s[i] # c
                /\ signature' = [signature EXCEPT !.s[i] = c]
                /\ UNCHANGED rawBody
    /\ isValidSignature' = verifyThorWebhookSignature(rawBody'.raw, signature', secret)
    /\ steps' = Append(steps, "tamper")
    /\ pc' = "v_tampered"
    /\ UNCHANGED <<pipeline, secret, sent, now, rejectsEmptyKey, supplied, env,
                   isValidTimestamp, parsed, validatedEvent, pending, invoked,
                   downstream, thrown, result, suspended>>

VerifierNext ==
    \/ CallVerifySignature
    \/ CallVerifyTimestamp
    \/ Tamper

VerifierSpec == VerifierInit /\ [][VerifierNext]_vars

(***************************************************************************)
(* Vocabulary of the properties.                                           *)
(***************************************************************************)
\* position of a step in the run, 0 when the run has not executed it
Pos(step) == IndexOf(steps, <<step>>)
Done == pc = "done"
Decoded == validatedEvent.t = "object"

\* the event types named by the supported-events table of the README
KnownTypes == {ORDER_CREATED, ORDER_PAYMENT_STATE_CHANGED,
               ORDER_FULFILLMENT_STATE_CHANGED, ORDER_CANCELLED}

\* the types that have a case of their own in the switch of a pipeline
RegisteredTypes(p) ==
    IF p = "handle" THEN KnownTypes \ {ORDER_CANCELLED} ELSE KnownTypes

\* the event type a handler is written for
TypeOfHandler(h) ==
    CASE h \in {"handleOrderCreated", "onOrderCreated"} -> ORDER_CREATED
      [] h \in {"handleOrderPaymentStateChanged", "onOrderPaymentStateChanged"} ->
             ORDER_PAYMENT_STATE_CHANGED
      [] h \in {"handleOrderFulfillmentStateChanged", "onOrderFulfillmentStateChanged"} ->
             ORDER_FULFILLMENT_STATE_CHANGED
      [] h \in {"handleOrderCancelled", "onOrderCancelled"} -> ORDER_CANCELLED
      [] OTHER -> "*"

\* the sender holding the configured secret signed this body at SignTime
CorrectlySigned ==
    /\ ~SecretMissing(secret)
    /\ signature.kind = "string"
    /\ signature.s \in SignedHeaders(secret, rawBody.raw)

(***************************************************************************)
(* C1.  A handler is invoked only after the signature verified, then the   *)
(* freshness check passed, then the body decoded into a schema-valid       *)
(* envelope, in this order; the first failing step ends the run and no     *)
(* later step executes.                                                    *)
(***************************************************************************)
C1_ChecksPrecedeHandler ==
    /\ invoked # <<>> =>
          /\ isValidSignature /\ isValidTimestamp /\ Decoded
          /\ 0 < Pos("verify")
          /\ Pos("verify") < Pos("timestamp")
          /\ Pos("timestamp") < Pos("parse")
          /\ Pos("parse") < Pos("validate")
          /\ Pos("validate") < Pos("dispatch")
          /\ Pos("dispatch") < Pos("handler")
    /\ (Pos("verify") > 0 /\ ~isValidSignature) =>
          /\ Done
          /\ steps[Len(steps)] = "verify"
    /\ (Pos("timestamp") > 0 /\ ~isValidTimestamp) =>
          /\ Done
          /\ steps[Len(steps)] = "timestamp"
    /\ thrown = "SyntaxError" =>
          /\ Pos("validate") = 0 /\ Pos("dispatch") = 0 /\ Pos("handler") = 0
          /\ Pos("respond") = 0
    /\ thrown = "ZodError" =>
          /\ Pos("dispatch") = 0 /\ Pos("handler") = 0 /\ Pos("respond") = 0
    /\ Pos("timestamp") > 0 => isValidSignature
    /\ Pos("parse") > 0 => isValidTimestamp
    /\ Pos("validate") > 0 => parsed.t # "none"
    /\ Pos("dispatch") > 0 => Decoded

\* a run that went through every check and called a handler
C1_Witness ==
    /\ Done
    /\ invoked # <<>>
    /\ result.statusCode = 200

(***************************************************************************)
(* C2.  With no webhook secret configured (absent or empty) the pipeline   *)
(* answers 500 for every request and never calls the signature verifier.   *)
(***************************************************************************)
C2_NoSecretIs500 ==
    (Done /\ SecretMissing(secret)) =>
        /\ result.statusCode = 500
        /\ Pos("verify") = 0

(***************************************************************************)
(* C3.  A signature header that is absent (null, undefined or empty) never *)
(* verifies, and a run whose header does not verify answers 401 with       *)
(* success = false, without decoding the body or invoking a handler.       *)
(***************************************************************************)
C3_UnverifiedIs401 ==
    LET verified ==
            verifyThorWebhookSignature(rawBody.raw, OrNull(signature), secret)
    IN  /\ (pc # "idle" /\ (signature.kind # "string" \/ signature.s = <<>>)) => ~verified
        /\ (Pos("verify") > 0 /\ ~verified) =>
              /\ Done
              /\ result.statusCode = 401
              /\ ~result.success
              /\ Pos("parse") = 0 /\ Pos("validate") = 0
              /\ parsed.t = "none" /\ ~Decoded
              /\ invoked = <<>>

\* a request without signature header was answered 401
C3_Witness ==
    /\ Done
    /\ signature.kind = "undefined"
    /\ Pos("verify") > 0
    /\ result.statusCode = 401

(***************************************************************************)
(* C4.  A correctly signed webhook delivered more than 300 seconds after   *)
(* it was signed gets 401 and reaches no handler.                          *)
(***************************************************************************)
C4_StaleIsRejected ==
    (/\ Done
     /\ CorrectlySigned
     /\ rawBody.json.t = "object" /\ SchemaAccepts(rawBody.json)
     /\ now - SignTime > DefaultTolerance) =>
        /\ result.statusCode = 401
        /\ invoked = <<>>

(***************************************************************************)
(* C5.  An authentication failure has one response: with a secret          *)
(* configured, a run that fails the freshness check is answered exactly as *)
(* a run that fails signature verification (same status, success, error    *)
(* and message).                                                           *)
(***************************************************************************)
C5_OneAuthFailureResponse ==
    (/\ Done
     /\ ~SecretMissing(secret)
     /\ Pos("verify") > 0
     /\ ~isValidSignature \/ ~isValidTimestamp) =>
        result = InvalidSignatureResponse

(***************************************************************************)
(* C6.  A request (to a pipeline with a secret configured) that passes     *)
(* verification and the freshness check, with a body that is not           *)
(* well-formed JSON or that the schema rejects, is answered 400 "Invalid   *)
(* webhook payload", and no handler is invoked.                            *)
(***************************************************************************)
C6_BadBodyIs400 ==
    (/\ Done
     /\ ~SecretMissing(secret)
     /\ isValidSignature /\ isValidTimestamp
     /\ (rawBody.json.t = "SyntaxError" \/ ~SchemaAccepts(rawBody.json))) =>
        /\ result = Failure(400, "Invalid webhook payload")
        /\ invoked = <<>>

C8_KnownTypesHaveHandlers ==
    (/\ Done
     /\ Decoded
     /\ EventType(validatedEvent) \in KnownTypes
     /\ pipeline = "processWebhook" =>
            \E cb \in supplied : TypeOfHandler(cb) = EventType(validatedEvent)) =>
        /\ Len(invoked) = 1
        /\ TypeOfHandler(invoked[1]) = EventType(validatedEvent)

(***************************************************************************)
(* C9.  The handler is chosen by exact equality of the envelope's type     *)
(* with a registered type, and a run invokes at most one handler, at most  *)
(* once.                                                                   *)
(***************************************************************************)
C9_AtMostOneHandler ==
    /\ Len(invoked) + Len(pending) <= 1
    /\ \A i \in 1..Len(invoked) :
          /\ Decoded
          /\ IF EventType(validatedEvent) \in RegisteredTypes(pipeline)
             THEN TypeOfHandler(invoked[i]) = EventType(validatedEvent)
             ELSE invoked[i] = "onOtherEvent"

\* a run that invoked the handler of its event's type, once
C9_Witness ==
    /\ Done
    /\ Len(invoked) = 1
    /\ invoked[1] = "handleOrderPaymentStateChanged"
    /\ EventType(validatedEvent) = ORDER_PAYMENT_STATE_CHANGED

(***************************************************************************)
(* C10.  Whenever a handler fails, also when one of its own calls fails    *)
(* (the fetch errors or finds no order, the email send reports failure),   *)
(* the run answers 500 "Internal server error" with success = false.       *)
(***************************************************************************)
C10_HandlerFailureIs500 ==
    (/\ Done
     /\ invoked # <<>>
     /\ \/ thrown # "none"
        \/ downstream.fetch \in {"error", "null"}
        \/ downstream.send = "failed") =>
        result = Failure(500, "Internal server error")

(***************************************************************************)
(* C11.  Every received run ends (the handler terminating) with exactly    *)
(* one result, of the uniform shape: the status is one of 200, 400, 401,   *)
(* 500, success is true exactly for 200, a failure carries an error text   *)
(* and a success a message; a thrown exception is always turned into such  *)
(* a result, it never leaves the pipeline.  Termination: each step of a    *)
(* run lowers RunRank, and a run that has no result yet is at a position   *)
(* from which a step is possible.                                          *)
(***************************************************************************)
\* the positions of a run, from the last to the first
RunPositions == <<"done", "catch", "respond", "call", "callback", "h_send",
                  "h_provider", "h_fetch", "h_client", "dispatch", "validate",
                  "parse", "timestamp", "verify", "secret">>
\* what is left of a run: the whole switch while it has not been entered, then
\* the calls still to make, then the position
RunRank ==
    Len(RunPositions) * (IF Pos("dispatch") = 0 THEN Len(RunPositions) ELSE Len(pending))
        + IndexOf(RunPositions, <<pc>>)

C11_UniformResult ==
    /\ [](Done =>
            /\ result.statusCode \in {200, 400, 401, 500}
            /\ result.success <=> result.statusCode = 200
            /\ result.success => result.message # "" /\ result.error = ""
            /\ ~result.success => result.error # "" /\ result.message = ""
            /\ thrown # "none" => result = CatchResult(thrown))
    /\ [](~Done => result = NoResult)
    /\ [](pc # "idle" => IndexOf(RunPositions, <<pc>>) > 0)
    /\ [](pc = "verify" =>
            verifyThorWebhookSignature(rawBody.raw, OrNull(signature), secret)
                \in BOOLEAN)
    /\ [](pc = "timestamp" =>
            verifyWebhookTimestamp(OrNull(signature), DefaultTolerance) \in BOOLEAN)
    /\ [](pc \notin {"idle", "done", "verify", "timestamp"} => ENABLED RunStep)
    /\ [][pc \notin {"idle", "done"} => RunRank' < RunRank]_vars

\* a handler threw a TypeError and the run ended with a 500 result
C11_Witness ==
    /\ Done
    /\ thrown = "TypeError"
    /\ invoked # <<>>
    /\ result.statusCode = 500
    /\ ~result.success

(***************************************************************************)
(* C12.  The replay guard fails open on a malformed timestamp: for every   *)
(* header with a t= component whose value is not an integer (no digit in   *)
(* it, or empty), verifyWebhookTimestamp returns true; here for headers    *)
(* that the configured secret signed.                                      *)
(***************************************************************************)
C12_MalformedTimestampPasses ==
    (/\ pc = "v_done"
     /\ ~SecretMissing(secret)
     /\ isValidSignature
     /\ signature.kind = "string"
     /\ \E k \in SenderKeys :
            signature.s \in MalformedTimestampHeaders(k, rawBody.raw)) =>
        isValidTimestamp

(***************************************************************************)
(* C13.  verifyWebhookTimestamp returns true for a missing header and for  *)
(* a header without t= component; for a header whose t= component is an    *)
(* integer t it returns true exactly when |now - t| <= tolerance, the      *)
(* boundary included on both sides.                                        *)
(***************************************************************************)
\* the comma-separated components of a header
Components(s) == Split(s, ",")
HasComponent(s, c) == \E i \in 1..Len(Components(s)) : Components(s)[i] = c
HasTimestampComponent(s) ==
    \E i \in 1..Len(Components(s)) : StartsWith(Components(s)[i], PrefixT)

\* the tolerances the guard is asked about
Tolerances == {0, DefaultTolerance, DefaultTolerance + 1}
\* the integers that the headers of the model carry as timestamp
TimestampRange == HeaderTimes \cup {SignTime + DefaultTolerance + 1}

C13_FreshnessBoundary ==
    pc = "v_done" =>
        /\ isValidTimestamp = verifyWebhookTimestamp(signature, DefaultTolerance)
        /\ \A tol \in Tolerances :
              /\ signature.kind # "string" => verifyWebhookTimestamp(signature, tol)
              /\ (signature.kind = "string" /\ ~HasTimestampComponent(signature.s)) =>
                     verifyWebhookTimestamp(signature, tol)
              /\ \A t \in TimestampRange :
                     (/\ signature.kind = "string"
                      /\ HasComponent(signature.s, PrefixT \o NumberToString(t))) =>
                         (verifyWebhookTimestamp(signature, tol) <=> Abs(now - t) <= tol)

\* a header stamped exactly 300 seconds ahead of the clock passed
C13_Witness ==
    /\ pc = "v_done"
    /\ signature.kind = "string"
    /\ HasComponent(signature.s, PrefixT \o NumberToString(SignTime))
    /\ SignTime = now + DefaultTolerance
    /\ isValidTimestamp

(***************************************************************************)
(* C14, as stated.  Round trip: for any secret, body and integer t, the    *)
(* header "sha256=" + hex(HMAC(secret, body)) verifies, and so does the    *)
(* header made of t=<t> and v1=hex(HMAC(secret, t + "." + body)), in       *)
(* either order.                                                           *)
(***************************************************************************)
C14_RoundTripAnySecret ==
    (/\ pc \in {"v_checked", "v_done"}
     /\ secret # Absent
     /\ signature.kind = "string"
     /\ signature.s \in GrammarHeaders(KeyBytes(secret), rawBody.raw)) =>
        isValidSignature

(***************************************************************************)
(* C14, amended.  The round trip holds for every non-empty secret; with an *)
(* empty (or undefined) secret it holds exactly on the platforms whose     *)
(* importKey accepts a zero-length key.                                    *)
(***************************************************************************)
C14_RoundTrip ==
    (/\ pc \in {"v_checked", "v_done"}
     /\ signature.kind = "string"
     /\ signature.s \in GrammarHeaders(KeyBytes(secret), rawBody.raw)) =>
        /\ ~SecretMissing(secret) => isValidSignature
        /\ isValidSignature <=> ~ImportKeyThrows(KeyBytes(secret))

\* a header with v1= before t=, for a negative t, verified
C14_Witness ==
    /\ pc = "v_checked"
    /\ ~SecretMissing(secret)
    /\ signature.kind = "string"
    /\ signature.s = ReversedHeader(secret, 0 - 5, rawBody.raw)
    /\ isValidSignature

(***************************************************************************)
(* C15, as stated.  Tamper sensitivity: for a body and a header that       *)
(* verify under the secret, replacing any one character of the body or of  *)
(* the header makes verification fail.                                     *)
(***************************************************************************)
C15_AnyChangeIsDetected ==
    (pc = "v_tampered" /\ ~SecretMissing(secret)) => ~isValidSignature

(***************************************************************************)
(* C15, amended.  Replacing one character of the body always makes         *)
(* verification fail; replacing one character of the header does when the  *)
(* header is of a documented form, sha256=<hex> or t=<t> with v1=<hex> in  *)
(* either order, and nothing more.                                         *)
(***************************************************************************)
C15_TamperSensitivity ==
    pc = "v_tampered" =>
        /\ rawBody.raw # sent.raw => ~isValidSignature
        /\ (/\ signature # sent.signature
            /\ sent.signature.s \in GrammarHeaders(KeyBytes(secret), sent.raw)) =>
               ~isValidSignature

\* the comma of a timestamped header was replaced by "=", and the header no
\* longer verifies
C15_Witness ==
    /\ pc = "v_tampered"
    /\ sent.signature.s = TimestampedHeader(KeyBytes(secret), SignTime, sent.raw)
    /\ signature.s # sent.signature.s
    /\ HasComponent(signature.s, ReplaceFirst(sent.signature.s, <<",">>, <<"=">>))
    /\ ~isValidSignature

(***************************************************************************)
(* C16.  verifyThorWebhookSignature never throws, it answers false: for a  *)
(* header of neither form, for a timestamped header that lacks its t= or   *)
(* its v1= value, and when the HMAC computation fails (importKey refusing  *)
(* the key).                                                               *)
(***************************************************************************)
C16_VerifyAnswersFalse ==
    pc \in {"v_checked", "v_done"} =>
        /\ isValidSignature \in BOOLEAN
        /\ isValidSignature = verifyThorWebhookSignature(rawBody.raw, signature, secret)
        /\ thrown = "none"
        /\ signature.kind = "string" =>
              /\ signature.s \in NeitherFormHeaders => ~isValidSignature
              /\ \A k \in SenderKeys :
                    signature.s \in MissingValueHeaders(k, rawBody.raw)
                                      \cup {HeaderWithTimestampText(k, <<>>, rawBody.raw)}
                        => ~isValidSignature
        /\ ImportKeyThrows(KeyBytes(secret)) => ~isValidSignature

\* importKey refused the empty key and a header signed with that key was
\* answered false
C16_Witness ==
    /\ pc = "v_checked"
    /\ ImportKeyThrows(KeyBytes(secret))
    /\ signature.kind = "string"
    /\ signature.s = SimpleHeader("", rawBody.raw)
    /\ ~isValidSignature

(***************************************************************************)
(* C17, as stated.  Decoding preserves unknown fields: every field of the  *)
(* body that the schema does not declare, at the top level of the event or *)
(* inside data.object, is in the decoded envelope with the same value; a   *)
(* body without idempotency_key does not decode.                           *)
(***************************************************************************)
\* the keys that ThorWebhookEvent declares at the top level
DeclaredKeys == {"id", "object", "created", "idempotency_key", "data", "type"}
\* data.object of an event
Subject(event) == event.f["data"].f["object"]

C17_UnknownFieldsPreserved ==
    /\ (Decoded /\ ~SecretMissing(secret)) =>
          /\ \A key \in DOMAIN parsed.f \ DeclaredKeys :
                /\ key \in DOMAIN validatedEvent.f
                /\ validatedEvent.f[key] = parsed.f[key]
          /\ \A key \in DOMAIN Subject(parsed).f \ {"id"} :
                /\ key \in DOMAIN Subject(validatedEvent).f
                /\ Subject(validatedEvent).f[key] = Subject(parsed).f[key]
    /\ (Pos("validate") > 0 /\ ~Has(parsed, "idempotency_key")) => ~Decoded

(***************************************************************************)
(* C17, amended.  Decoding preserves the fields of data.object, declared   *)
(* or not, and the declared fields of the event; a field that the schema   *)
(* does not declare at the top level (or directly under data) is dropped   *)
(* from the envelope; a body without idempotency_key does not decode.      *)
(***************************************************************************)
C17_SubjectFieldsPreserved ==
    /\ Decoded =>
          /\ DOMAIN validatedEvent.f = DeclaredKeys
          /\ \A key \in DeclaredKeys \ {"data"} : validatedEvent.f[key] = parsed.f[key]
          /\ DOMAIN validatedEvent.f["data"].f = {"object"}
          /\ DOMAIN Subject(validatedEvent).f = DOMAIN Subject(parsed).f
          /\ \A key \in DOMAIN Subject(parsed).f :
                Subject(validatedEvent).f[key] = Subject(parsed).f[key]
    /\ (Pos("validate") > 0 /\ ~Has(parsed, "idempotency_key")) =>
          /\ ~Decoded
          /\ thrown = "ZodError"

\* the event with two more fields was decoded: status is in data.object of the
\* envelope, livemode is not in the envelope
C17_Witness ==
    /\ Done
    /\ Decoded
    /\ rawBody = ExtraFieldsBody
    /\ "livemode" \in DOMAIN parsed.f
    /\ "livemode" \notin DOMAIN validatedEvent.f
    /\ "status" \in DOMAIN Subject(validatedEvent).f

(***************************************************************************)
(* C18.  Every envelope that reaches the dispatcher (here with a secret    *)
(* configured) has non-empty strings as id, idempotency_key, type and      *)
(* data.object.id, and an integer as created.                              *)
(***************************************************************************)
NonEmptyString(obj, key) == IsString(obj, key) /\ obj.f[key].v # ""

C18_EnvelopeInvariants ==
    (Pos("dispatch") > 0 /\ ~SecretMissing(secret)) =>
        /\ NonEmptyString(validatedEvent, "id")
        /\ NonEmptyString(validatedEvent, "idempotency_key")
        /\ NonEmptyString(validatedEvent, "type")
        /\ NonEmptyString(Subject(validatedEvent), "id")
        /\ validatedEvent.f["created"].t = "number"
        /\ validatedEvent.f["created"].v \in IntegerLiterals

(***************************************************************************)
(* C19, as stated.  End to end: with a secret configured, a schema-valid   *)
(* order.created body and the header "sha256=" + hex(HMAC(secret, body)),  *)
(* the run invokes the order-created handler exactly once, on the id of    *)
(* data.object of the body, invokes no other handler, and answers 200 when *)
(* the handler does not throw.                                             *)
(***************************************************************************)
\* a schema-valid order.created body arrived with its sha256= header
SignedOrderCreated ==
    /\ ~SecretMissing(secret)
    /\ rawBody.json.t = "object" /\ SchemaAccepts(rawBody.json)
    /\ EventType(rawBody.json) = ORDER_CREATED
    /\ signature.kind = "string"
    /\ signature.s = SimpleHeader(secret, rawBody.raw)

ReachesDispatch ==
    /\ ~(pipeline = "handle" /\ SecretMissing(secret))
    /\ verifyThorWebhookSignature(rawBody.raw, OrNull(signature), secret)
    /\ verifyWebhookTimestamp(OrNull(signature), DefaultTolerance)
    /\ rawBody.json.t # "SyntaxError"
    /\ SchemaAccepts(rawBody.json)

\* the calls the run makes when none of them throws
ExpectedCalls ==
    IF ~ReachesDispatch THEN <<>>
    ELSE IF pipeline = "handle"
         THEN handleWebhookEvent(EventType(SchemaOutput(rawBody.json)))
         ELSE processWebhookSwitch(EventType(SchemaOutput(rawBody.json)), supplied)

\* the result of the run taken alone
ExpectedResult ==
    IF pipeline = "handle" /\ SecretMissing(secret)
      THEN Failure(500, "Webhook secret not configured")
    ELSE IF ~verifyThorWebhookSignature(rawBody.raw, OrNull(signature), secret)
      THEN InvalidSignatureResponse
    ELSE IF ~verifyWebhookTimestamp(OrNull(signature), DefaultTolerance)
      THEN InvalidTimestampResponse
    ELSE IF rawBody.json.t = "SyntaxError" THEN CatchResult("SyntaxError")
    ELSE IF ~SchemaAccepts(rawBody.json) THEN CatchResult("ZodError")
    ELSE IF thrown \in {"Error", "TypeError"} THEN CatchResult(thrown)
    ELSE Success

C20_ConcurrentRunsIndependent ==
    /\ [](Done =>
            /\ result = ExpectedResult
            /\ Len(invoked) <= Len(ExpectedCalls)
            /\ \A i \in 1..Len(invoked) : invoked[i] = ExpectedCalls[i]
            /\ result = Success => invoked = ExpectedCalls
            /\ thrown \in {"Error", "TypeError"} => invoked # <<>>
            /\ invoked # <<>> =>
                   downstream.orderId = ResourceId(SchemaOutput(rawBody.json)))
    /\ [][suspended' # suspended => (suspended' = Frame /\ Frame' = suspended)]_vars

\* a handler of one run has thrown and that run is not yet answered, while the
\* other run, on another body and in the other pipeline, has answered 200
C20_Witness ==
    /\ Done
    /\ result = Success
    /\ invoked # <<>>
    /\ suspended.pc = "catch"
    /\ suspended.thrown = "Error"
    /\ suspended.invoked # <<>>
    /\ suspended.rawBody # rawBody
    /\ suspended.pipeline # pipeline

(***************************************************************************)
(* C21: the freshness tolerance of the pipeline is configurable.  When the *)
(* configuration carries a tolerance override, the freshness check of the  *)
(* run is the check with that tolerance, and it is the check with 300      *)
(* seconds when the configuration carries none.                            *)
(***************************************************************************)
C21_ToleranceConfigurable ==
    LET configured == IF env.toleranceSeconds = <<>> THEN DefaultTolerance
                      ELSE env.toleranceSeconds[1]
    IN  (/\ Pos("timestamp") > 0
         /\ ~SecretMissing(secret))
        => isValidTimestamp = verifyWebhookTimestamp(OrNull(signature), configured)

(***************************************************************************)
(* C22: the two pipelines agree.  When handle and processWebhook have both *)
(* finished on the same body, header, non-empty secret and clock reading,  *)
(* and their handlers behaved alike (both returned or both threw, where    *)
(* both were invoked), they answer with the same status code and either    *)
(* both invoked a handler for the event or neither did.                    *)
(***************************************************************************)
\* a handler of the run threw
HandlerThrew(run) == run.invoked # <<>> /\ run.thrown \in {"Error", "TypeError"}

C22_PipelinesAgree ==
    (/\ Done
     /\ suspended.pc = "done"
     /\ pipeline = "handle"
     /\ suspended.pipeline = "processWebhook"
     /\ ~SecretMissing(secret)
     /\ suspended.secret = secret
     /\ suspended.rawBody = rawBody
     /\ suspended.signature = signature
     /\ suspended.now = now
     /\ (invoked # <<>> /\ suspended.invoked # <<>>)
            => (HandlerThrew(Frame) <=> HandlerThrew(suspended)))
    => /\ result.statusCode = suspended.result.statusCode
       /\ invoked # <<>> <=> suspended.invoked # <<>>

(***************************************************************************)
(* C23: the timestamp checked for freshness is the signed one.  For a      *)
(* header that verifies in the timestamped format, the freshness check     *)
(* answers as the comparison of the clock with the integer read from the   *)
(* text that was prefixed to the body in the signed message; a header that *)
(* verifies in the simple format passes the freshness check at every       *)
(* tolerance.                                                              *)
(***************************************************************************)
\* the text before ".<body>" in the message whose HMAC the header carries
SignedTimestamp ==
    LET x == ExtractSignature(rawBody.raw, signature.s)
    IN  SubSeq(x.payload, 1, Len(x.payload) - Len(rawBody.raw) - 1)

C23_FreshnessOnSignedTimestamp ==
    (/\ pc = "v_done"
     /\ isValidSignature)
    => IF StartsWith(signature.s, PrefixSha256)
       THEN /\ isValidTimestamp
            /\ \A tol \in Tolerances : verifyWebhookTimestamp(signature, tol)
       ELSE /\ HmacHex(KeyBytes(secret), SignedTimestamp \o <<".">> \o rawBody.raw)
                  = ExtractSignature(rawBody.raw, signature.s).sig
            /\ LET webhookTime == ParseInt(SignedTimestamp)
               IN  isValidTimestamp = (/\ ~webhookTime.nan
                                       /\ Abs(now - webhookTime.n) <= DefaultTolerance)

\* a header with v1= first and a signed t= of long ago verified and was found
\* stale
C23_Witness ==
    /\ pc = "v_done"
    /\ isValidSignature
    /\ signature.s = ReversedHeader(secret, 0, rawBody.raw)
    /\ SignedTimestamp = <<"0">>
    /\ ~isValidTimestamp

====
